---- MODULE Spec2Model ----
(***************************************************************************)
(* Verification model of the assemblyline-ui signature API                 *)
(* (assemblyline_ui/api/v4/signature.py): the signature store and its      *)
(* status lifecycle, the per-service source list editor, and the guarded   *)
(* cache-or-compute signature download; and of the related-file searches   *)
(* of the archive API (assemblyline_ui/api/v4/archive.py).                 *)
(*                                                                         *)
(* Strings of the program are modelled as sequences of tokens, so that     *)
(* the f-strings that build document keys and the prefix wildcard of a     *)
(* search query are computed, not assumed.                                 *)
(***************************************************************************)
EXTENDS Integers, Sequences, FiniteSets, TLC

(***************************************************************************)
(* Status groups imported from assemblyline.odm.models.signature           *)
(* (signature.py line 10).  Their members are the ones the specification   *)
(* lists in section 4.1; the stale group, which it leaves to the           *)
(* configuration, is the retired status INVALID.                           *)
(***************************************************************************)
DEPLOYED_STATUSES == {"DEPLOYED", "NOISY"}

DRAFT_STATUSES == {"STAGING", "DISABLED", "INVALID", "TESTING"}

STALE_STATUSES == {"INVALID"}

\* A status no group contains, to exercise the first check of change_status.
RequestStatuses == DEPLOYED_STATUSES \cup DRAFT_STATUSES \cup {"BOGUS"}

(***************************************************************************)
(* Callers: kwargs['user'] with its uname and classification.              *)
(***************************************************************************)
Users ==
    { [uname |-> "admin", classification |-> "R"],
      [uname |-> "analyst", classification |-> "U"] }

\* Classification.is_accessible(user_c12n, c12n): a caller reads a document
\* whose classification its own dominates ("U" unrestricted, "R" restricted).
Level(c) == IF c = "R" THEN 1 ELSE 0

is_accessible(user_c12n, c12n) == Level(user_c12n) >= Level(c12n)

(***************************************************************************)
(* Keys of signature documents.                                            *)
(***************************************************************************)
IsPrefix(p, s) == Len(p) <= Len(s) /\ SubSeq(s, 1, Len(p)) = p

\* f"{data['type']}_{data['signature_id']}_{data['revision']}"
SigKey(type, signature_id, revision) ==
    <<type, "_">> \o signature_id \o <<"_", revision>>

\* f"{other['meta']['rule_id']}r.{other['meta']['rule_version']}"
CascadeKey(meta) == <<meta.rule_id, "r.", meta.rule_version>>

\* get_id_from_data(data['data'], SHORT): an identifier derived from the rule text
get_id_from_data(data) == <<"sha", data>>

\* f"{data['source']}.{data['name']}"
DefaultUpdateId(source, name) == <<source, ".", name>>

NoMeta == [present |-> FALSE, rule_id |-> "", rule_version |-> ""]

RuleMeta(id, version) == [present |-> TRUE, rule_id |-> id, rule_version |-> version]

\* A missing JSON field
None == "None"

\* A request body without 'signature_id'
NoId == <<>>

(***************************************************************************)
(* Request bodies of the signature importer (request.json).  Two           *)
(* signatures of family F1 go through add_signature and get the keys       *)
(* yara_F1_1 and yara_F1_2.  The first carries a 'meta' block whose rule   *)
(* id and version spell the key R1r.1; the second carries none.  A third   *)
(* signature, with the name of the first, has the identifier R1r.1 and     *)
(* goes through add_update_signature, which stores it under that key.      *)
(***************************************************************************)
BodyStatuses == {"TESTING", "DEPLOYED", "INVALID"}

SigBody(name, type, sid, revision, status, c12n, meta) ==
    [name |-> name, type |-> type, source |-> "s1", signature_id |-> sid,
     revision |-> revision, data |-> "d1", order |-> 1, status |-> status,
     classification |-> c12n, meta |-> meta,
     state_change_date |-> "", state_change_user |-> ""]

AddBodies ==
    { SigBody("n1", "yara", <<"F1">>, "1", st, "R", RuleMeta("R1", "1")) : st \in BodyStatuses }
    \cup { SigBody("n2", "yara", <<"F1">>, "2", st, "U", NoMeta) : st \in BodyStatuses }
    \cup { SigBody("n1", None, <<"F1">>, "1", "TESTING", "U", NoMeta) }

AddUpdateBodies ==
    { SigBody("n1", "yara", <<"R1", "r.", "1">>, "1", st, "R", RuleMeta("R1", "1")) :
        st \in BodyStatuses }
    \cup { SigBody(None, "yara", <<"R1", "r.", "1">>, "1", "TESTING", "U", NoMeta) }

\* The bodies an importer posts to update the signature stored as `doc`:
\* the same signature, with the status the importer gives it
UpdateBodies(doc) ==
    { [doc EXCEPT !.status = st, !.state_change_date = "", !.state_change_user = ""] :
        st \in BodyStatuses }

\* A key no document has, for the not-found branches
MissingKey == <<"yara", "_", "F9", "_", "1">>

VARIABLES
    signature,      \* STORAGE.signature: key -> document, for the keys that exist
    service,        \* STORAGE.service: the update_config of the one service
    service_delta,  \* STORAGE.service_delta: the update_config of its delta
    call,           \* the handler that served the last request
    response,       \* what make_api_response returned for it
    cache,          \* the cachestore 'al_ui.signature': query_hash -> bundle
    lock,           \* the holder of each named Lock, 0 when it is free
    pc,             \* where each download_signatures caller stands
    req,            \* its access scope and the query_hash it computed
    rule_file_bin,  \* the bundle it built, <<>> before
    result,         \* what it returned
    computations,   \* bundles built per query_hash since its entry last expired
    cache_failed,   \* whether a read of the cache has raised or a save has failed
    expired,        \* whether an entry of the cache has reached its TTL
    details_req,    \* the last get_additional_details request and the searches that raised
    output          \* the output of get_additional_details

vars == <<signature, service, service_delta, call, response,
          cache, lock, pc, req, rule_file_bin, result, computations, cache_failed, expired,
          details_req, output>>

sigVars == <<signature>>

srcVars == <<service, service_delta>>

dlVars == <<cache, lock, pc, req, rule_file_bin, result, computations, cache_failed, expired>>

arVars == <<details_req, output>>

Response(code, success, err) == [code |-> code, success |-> success, err |-> err]

Flag(b) == IF b THEN "true" ELSE "false"

\* STORAGE.signature.save(key, doc); `ok` is the boolean it returns
Save(store, key, doc, ok) ==
    IF ok
    THEN [k \in DOMAIN store \cup {key} |-> IF k = key THEN doc ELSE store[k]]
    ELSE store

\* STORAGE.signature.delete(key)
Delete(store, key) == [k \in DOMAIN store \ {key} |-> store[k]]

(***************************************************************************)
(* change_status (signature.py lines 144-205)                              *)
(***************************************************************************)
\* line 163: status not in DEPLOYED_STATUSES + DRAFT_STATUSES
ImpossibleStatus(status) == status \notin (DEPLOYED_STATUSES \cup DRAFT_STATUSES)

\* change_status without the check of lines 170-171
AccessDenied_Unchecked(user, data) == FALSE

\* lines 170-171: the caller's classification does not give access to the signature's
AccessDenied(user, data) == ~is_accessible(user.classification, data.classification)

\* change_status without the check of line 174
StaleBlocked_Unchecked(current, status) == FALSE

\* line 174: a stale signature may only move to a draft status
StaleBlocked(current, status) ==
    current \in STALE_STATUSES /\ status \notin DRAFT_STATUSES

\* change_status without the check of line 180
DeployedBlocked_Unchecked(current, status) == FALSE

\* line 180: a deployed signature may not move to a draft status
DeployedBlocked(current, status) ==
    current \in DEPLOYED_STATUSES /\ status \in DRAFT_STATUSES

\* line 189: the statuses several signatures of a family may hold at once
CascadeExempt(status) == status \in {"DISABLED", "INVALID", "TESTING"}

\* lines 185, 190-191: f"status:{status} AND signature_id:{...} AND NOT id:{sid}"
SiblingKeys(store, sid, status) ==
    { k \in DOMAIN store :
        /\ store[k].status = status
        /\ store[k].signature_id = store[sid].signature_id
        /\ k # sid }

\* The orders in which the search may list a set of keys
Orderings(S) ==
    { o \in [1..Cardinality(S) -> S] : \A i, j \in DOMAIN o : o[i] = o[j] => i = j }

\* lines 193-195: the sibling as the loop rewrites it
Disabled(other, today, uname) ==
    [other EXCEPT !.state_change_date = today,
                  !.state_change_user = uname,
                  !.status = "DISABLED"]

\* lines 192-197: the loop over the siblings fetched by multiget. A sibling
\* without 'meta' raises KeyError at line 197 and ends the handler there.
RECURSIVE Cascade(_, _, _, _)
Cascade(store, others, today, uname) ==
    IF others = <<>>
    THEN [store |-> store, raised |-> FALSE]
    ELSE LET other == Disabled(Head(others), today, uname)
         IN  IF ~other.meta.present
             THEN [store |-> store, raised |-> TRUE]
             ELSE Cascade(Save(store, CascadeKey(other.meta), other, TRUE),
                          Tail(others), today, uname)

\* lines 199-201: the target as the handler rewrites it
Restamped(data, status, today, uname) ==
    [data EXCEPT !.state_change_date = today,
                 !.state_change_user = uname,
                 !.status = status]

\* The whole handler: the store it leaves and the response it returns.
\* `order` is the order of the search result, `ok` what the last save returns.
change_status(store, sid, status, user, order, today, ok) ==
    IF ImpossibleStatus(status)
    THEN [store |-> store, response |-> Response(403, "absent", "cannot_apply_status")]
    ELSE IF sid \notin DOMAIN store
    THEN [store |-> store, response |-> Response(404, "absent", "not_found")]
    ELSE LET data == store[sid] IN
      IF AccessDenied(user, data)
      THEN [store |-> store, response |-> Response(403, "absent", "not_allowed")]
      ELSE IF StaleBlocked(data.status, status)
      THEN [store |-> store, response |-> Response(403, "absent", "stale_only_to_draft")]
      ELSE IF DeployedBlocked(data.status, status)
      THEN [store |-> store, response |-> Response(403, "absent", "deployed_to_draft")]
      ELSE LET others == IF CascadeExempt(status)
                         THEN <<>>
                         ELSE [i \in DOMAIN order |-> store[order[i]]]
               c == Cascade(store, others, today, user.uname)
           IN  IF c.raised
               THEN [store |-> c.store, response |-> Response(500, "absent", "KeyError")]
               ELSE [store |-> Save(c.store, sid, Restamped(data, status, today, user.uname), ok),
                     response |-> Response(200, Flag(ok), "")]

\* now_as_iso(): the time of the call
Times == {"t1"}

\* The orders in which the search of lines 190-191 may list the siblings
SearchOrders(store, sid, status) ==
    Orderings(IF sid \in DOMAIN store THEN SiblingKeys(store, sid, status) ELSE {})

ChangeStatus ==
    \E sid \in DOMAIN signature \cup {MissingKey},
       status \in RequestStatuses, user \in Users, today \in Times, ok \in BOOLEAN :
      \E order \in SearchOrders(signature, sid, status) :
        LET r == change_status(signature, sid, status, user, order, today, ok)
        IN  /\ signature' = r.store
            /\ response' = r.response
            /\ call' = "change_status"
            /\ UNCHANGED <<srcVars, dlVars, arVars>>

(***************************************************************************)
(* add_signature (lines 26-73)                                             *)
(***************************************************************************)
\* lines 51, 670: type, name and data are mandatory
MissingFields(data) == data.type = None \/ data.name = None \/ data.data = None

\* lines 59-63: other signatures with the name, type and source of `data`
\* whose id does not start with its signature_id
NameTaken(store, data, signature_id) ==
    \E k \in DOMAIN store :
        /\ store[k].name = data.name
        /\ store[k].type = data.type
        /\ store[k].source = data.source
        /\ ~IsPrefix(signature_id, k)

add_signature(store, body, ok) ==
    IF MissingFields(body)
    THEN [store |-> store, response |-> Response(400, "absent", "mandatory_fields"), id |-> <<>>]
    ELSE LET signature_id == IF body.signature_id = NoId
                             THEN get_id_from_data(body.data) ELSE body.signature_id
             data == [body EXCEPT !.signature_id = signature_id]
             key == SigKey(data.type, signature_id, data.revision)
         IN  IF NameTaken(store, data, signature_id)
             THEN [store |-> store, response |-> Response(400, "false", "name_exists"), id |-> key]
             ELSE [store |-> Save(store, key, data, ok),
                   response |-> Response(200, Flag(ok), ""), id |-> key]

AddSignature ==
    \E body \in AddBodies, ok \in BOOLEAN :
        LET r == add_signature(signature, body, ok)
        IN  /\ signature' = r.store
            /\ response' = r.response
            /\ call' = "add_signature"
            /\ UNCHANGED <<srcVars, dlVars, arVars>>

(***************************************************************************)
(* add_update_signature (lines 649-678)                                    *)
(***************************************************************************)
add_update_signature(store, body, ok) ==
    IF MissingFields(body)
    THEN [store |-> store, response |-> Response(400, "absent", "mandatory_fields"), id |-> <<>>]
    ELSE LET signature_id == IF body.signature_id = NoId
                             THEN DefaultUpdateId(body.source, body.name)
                             ELSE body.signature_id
             data == [body EXCEPT !.signature_id = signature_id]
         IN  [store |-> Save(store, signature_id, data, ok),
              response |-> Response(200, Flag(ok), ""), id |-> signature_id]

AddUpdateSignature ==
    \E body \in AddUpdateBodies, ok \in BOOLEAN :
        LET r == add_update_signature(signature, body, ok)
        IN  /\ signature' = r.store
            /\ response' = r.response
            /\ call' = "add_update_signature"
            /\ UNCHANGED <<srcVars, dlVars, arVars>>

(***************************************************************************)
(* update_signature (lines 443-474)                                        *)
(***************************************************************************)
update_signature(store, sid, body, ok) ==
    IF sid \in DOMAIN store
    THEN [store |-> Save(store, sid, body, ok), response |-> Response(200, Flag(ok), "")]
    ELSE [store |-> store, response |-> Response(404, "false", "not_found")]

UpdateSignature ==
    \E sid \in DOMAIN signature \cup {MissingKey}, ok \in BOOLEAN :
      \E body \in IF sid \in DOMAIN signature
                   THEN UpdateBodies(signature[sid]) ELSE AddBodies :
        LET r == update_signature(signature, sid, body, ok)
        IN  /\ signature' = r.store
            /\ response' = r.response
            /\ call' = "update_signature"
            /\ UNCHANGED <<srcVars, dlVars, arVars>>

(***************************************************************************)
(* delete_signature (lines 210-234)                                        *)
(***************************************************************************)
delete_signature(store, sid, user, ok) ==
    IF sid \in DOMAIN store
    THEN IF ~is_accessible(user.classification, store[sid].classification)
         THEN [store |-> store, response |-> Response(403, "absent", "not_allowed")]
         ELSE [store |-> IF ok THEN Delete(store, sid) ELSE store,
               response |-> Response(200, Flag(ok), "")]
    ELSE [store |-> store, response |-> Response(404, "absent", "not_found")]

DeleteSignature ==
    \E sid \in DOMAIN signature \cup {MissingKey},
       user \in Users, ok \in BOOLEAN :
        LET r == delete_signature(signature, sid, user, ok)
        IN  /\ signature' = r.store
            /\ response' = r.response
            /\ call' = "delete_signature"
            /\ UNCHANGED <<srcVars, dlVars, arVars>>

(***************************************************************************)
(* The source list of a service (add_signature_source lines 78-138,        *)
(* update_signature_source lines 479-546, delete_signature_source lines    *)
(* 239-285).  A source is the request body: its name and uri decide every  *)
(* branch.                                                                 *)
(***************************************************************************)
Source(name, uri) == [name |-> name, uri |-> uri]

SourceNames == {"a", "b", "c"}

SourceUris == {"u1", "u2", "u3"}

SourceBodies == { Source(n, u) : n \in SourceNames, u \in SourceUris }

\* STORAGE.get_service_with_delta(service, as_obj=False): the service with the
\* update_config of its delta, when it has one, laid over its own
get_service_with_delta(svc, delta) ==
    [generates_signatures |-> svc.generates_signatures,
     sources |-> IF delta.has_update_config THEN delta.sources ELSE svc.sources]

\* lines 131-135, 278-282, 539-543: the delta with the new source list
WithSources(delta, sources) ==
    IF ~delta.has_update_config
    THEN [has_update_config |-> TRUE, sources |-> sources]
    ELSE [delta EXCEPT !.sources = sources]

\* STORAGE.service_delta.save(service, service_delta); `ok` is what it returns
SaveDelta(delta, new, ok) == IF ok THEN new ELSE delta

\* add_signature_source comparing names only
FirstConflict_NameOnly(sources, data) ==
    IF \E i \in DOMAIN sources : sources[i].name = data.name
    THEN "source_name_exists"
    ELSE ""

\* lines 119-128: the first source of the list with the name or the uri of
\* `data` decides the error, its name before its uri
RECURSIVE FirstConflict(_, _)
FirstConflict(sources, data) ==
    IF sources = <<>> THEN ""
    ELSE IF Head(sources).name = data.name THEN "source_name_exists"
    ELSE IF Head(sources).uri = data.uri THEN "source_uri_exists"
    ELSE FirstConflict(Tail(sources), data)

add_signature_source(svc, delta, data, ok) ==
    LET service_data == get_service_with_delta(svc, delta)
        current_sources == service_data.sources
        conflict == FirstConflict(current_sources, data)
    IN  IF ~service_data.generates_signatures
        THEN [delta |-> delta, response |-> Response(400, "false", "not_generating")]
        ELSE IF conflict # ""
        THEN [delta |-> delta, response |-> Response(400, "false", conflict)]
        ELSE [delta |-> SaveDelta(delta, WithSources(delta, Append(current_sources, data)), ok),
              response |-> Response(200, Flag(ok), "")]

AddSignatureSource ==
    \E data \in SourceBodies, ok \in BOOLEAN :
        LET r == add_signature_source(service, service_delta, data, ok)
        IN  /\ service_delta' = r.delta
            /\ response' = r.response
            /\ call' = "add_signature_source"
            /\ UNCHANGED <<service, sigVars, dlVars, arVars>>

\* update_signature_source taking the rename for an update
RenameAttempt_Unchecked(name, data) == FALSE

\* line 510: the body names another source than the URL does
RenameAttempt(name, data) == name # data.name

\* lines 525-532: every source named as `data` replaced by `data`, in place
Replaced(sources, data) ==
    [i \in DOMAIN sources |-> IF data.name = sources[i].name THEN data ELSE sources[i]]

Found(sources, name) == \E i \in DOMAIN sources : sources[i].name = name

\* The whole handler. With no source of that name, the f-string of line 536
\* reads data.name on the dict of request.json: AttributeError, answered 500.
update_signature_source(svc, delta, name, data, ok) ==
    LET service_data == get_service_with_delta(svc, delta)
        current_sources == service_data.sources
    IN  IF RenameAttempt(name, data)
        THEN [delta |-> delta, response |-> Response(400, "false", "rename_not_allowed")]
        ELSE IF ~service_data.generates_signatures
        THEN [delta |-> delta, response |-> Response(400, "false", "not_generating")]
        ELSE IF Len(current_sources) = 0
        THEN [delta |-> delta, response |-> Response(400, "false", "no_sources")]
        ELSE IF ~Found(current_sources, data.name)
        THEN [delta |-> delta, response |-> Response(500, "absent", "AttributeError")]
        ELSE [delta |-> SaveDelta(delta, WithSources(delta, Replaced(current_sources, data)), ok),
              response |-> Response(200, Flag(ok), "")]

UpdateSignatureSource ==
    \E name \in SourceNames, data \in SourceBodies, ok \in BOOLEAN :
        LET r == update_signature_source(service, service_delta, name, data, ok)
        IN  /\ service_delta' = r.delta
            /\ response' = r.response
            /\ call' = "update_signature_source"
            /\ UNCHANGED <<service, sigVars, dlVars, arVars>>

\* lines 265-271: the sources with another name, in their order
Without(sources, name) == SelectSeq(sources, LAMBDA source : source.name # name)

delete_signature_source(svc, delta, name, ok) ==
    LET service_data == get_service_with_delta(svc, delta)
        current_sources == service_data.sources
    IN  IF ~service_data.generates_signatures
        THEN [delta |-> delta, response |-> Response(400, "false", "not_generating")]
        ELSE IF ~Found(current_sources, name)
        THEN [delta |-> delta, response |-> Response(404, "false", "source_not_found")]
        ELSE [delta |-> SaveDelta(delta, WithSources(delta, Without(current_sources, name)), ok),
              response |-> Response(200, Flag(ok), "")]

DeleteSignatureSource ==
    \E name \in SourceNames, ok \in BOOLEAN :
        LET r == delete_signature_source(service, service_delta, name, ok)
        IN  /\ service_delta' = r.delta
            /\ response' = r.response
            /\ call' = "delete_signature_source"
            /\ UNCHANGED <<service, sigVars, dlVars, arVars>>

(***************************************************************************)
(* download_signatures (lines 306-364) and _get_cached_signatures (lines   *)
(* 289-300).  Each caller is a request of its own; a step is one access    *)
(* to what the callers share: the corpus, the cache or the lock.           *)
(***************************************************************************)
\* Concurrent callers of download_signatures
NumCallers == 3

Callers == 1..NumCallers

\* Values of the last_modified stamp of a signature
MaxModified == 1

\* Above this many, bundles built for one query_hash are no longer counted
MaxCounted == 2

\* user['access_control']: the classification the caller's searches are filtered by
AccessScopes == {"U", "R"}

\* request.args.get('query', 'status:DEPLOYED')
Queries == {"status:DEPLOYED"}

\* The corpus of the download: documents of STORAGE.signature
CorpusDoc(type, source, data, order, c12n, modified) ==
    [type |-> type, source |-> source, data |-> data, order |-> order,
     status |-> "DEPLOYED", classification |-> c12n, last_modified |-> modified]

Corpus ==
    (<<"yara", "_", "F1", "_", "1">> :> CorpusDoc("yara", "source1", "d1", 1, "U", 0))
    @@ (<<"yara", "_", "F2", "_", "1">> :> CorpusDoc("yara", "source1", "d2", 2, "R", 0))
    @@ (<<"suricata", "_", "F3", "_", "1">> :> CorpusDoc("suricata", "source2", "d3", 1, "U", 0))

\* The signature an importer rewrites while downloads run
Rewritten == <<"suricata", "_", "F3", "_", "1">>

Max(S) == CHOOSE x \in S : \A y \in S : y <= x

\* STORAGE.get_signature_last_modified(): the latest last_modified of the corpus
get_signature_last_modified(store) ==
    IF DOMAIN store = {} THEN 0
    ELSE Max({ store[k].last_modified : k \in DOMAIN store })

\* query_hash[:7], the first seven characters of a digest: digests of
\* different texts may share them
Prefix7(query, access, last_modified) == last_modified % 2

\* The digest of a text that leaves the access scope out
sha256_ScopeLeftOut(query, access, last_modified) ==
    [prefix7 |-> Prefix7(query, access, last_modified),
     rest |-> <<query, ".", "", ".", last_modified>>]

\* sha256(f'{query}.{access}.{last_modified}').hexdigest(): one digest per
\* text, written as its first seven characters and the rest
sha256(query, access, last_modified) ==
    [prefix7 |-> Prefix7(query, access, last_modified),
     rest |-> <<query, ".", access, ".", last_modified>>]

QueryHashes ==
    { sha256(q, a, m) : q \in Queries, a \in AccessScopes, m \in 0..MaxModified }

\* f"al_signatures_{query_hash[:7]}.zip"
LockName(query_hash) == <<"al_signatures_", query_hash.prefix7, ".zip">>

LockNames == { LockName(h) : h \in QueryHashes }

\* The documents a query selects
Matches(doc, query) == query = "status:DEPLOYED" => doc.status = "DEPLOYED"

\* stream_search(query, fl="id", access_control=access): the keys of the
\* documents the query selects among those the access scope may read
stream_search(store, query, access) ==
    { k \in DOMAIN store :
        Matches(store[k], query) /\ is_accessible(access, store[k].classification) }

\* The multiget result left as it is, without the sort of line 345
SortedByOrder_Unsorted(sigs) == sigs

\* sorted(..., key=lambda x: x['order']): a stable sort, by insertion
RECURSIVE Insert(_, _)
Insert(sorted, sig) ==
    IF sorted = <<>> THEN <<sig>>
    ELSE IF sig.order < Head(sorted).order THEN <<sig>> \o sorted
    ELSE <<Head(sorted)>> \o Insert(Tail(sorted), sig)

RECURSIVE SortedByOrder(_)
SortedByOrder(sigs) ==
    IF sigs = <<>> THEN <<>>
    ELSE Insert(SortedByOrder(SubSeq(sigs, 1, Len(sigs) - 1)), sigs[Len(sigs)])

\* f"{sig['type']}/{sig['source']}"
OutFname(sig) == <<sig.type, "/", sig.source>>

\* "\n\n".join(data)
RECURSIVE Join(_)
Join(data) ==
    IF Len(data) <= 1 THEN data
    ELSE <<Head(data), "\n\n">> \o Join(Tail(data))

\* lines 348-351: output_files, the names in the order of their first signature
RECURSIVE OutputFiles(_, _)
OutputFiles(signature_list, output_files) ==
    IF signature_list = <<>> THEN output_files
    ELSE LET sig == Head(signature_list)
             fname == OutFname(sig)
             at == { i \in DOMAIN output_files : output_files[i].fname = fname }
             next == IF at = {}
                     THEN Append(output_files, [fname |-> fname, data |-> <<sig.data>>])
                     ELSE [i \in DOMAIN output_files |->
                             IF i \in at
                             THEN [output_files[i] EXCEPT !.data = Append(@, sig.data)]
                             ELSE output_files[i]]
         IN  OutputFiles(Tail(signature_list), next)

\* lines 353-357: the archive, one entry per name with its joined data
InMemoryZip(output_files) ==
    [i \in DOMAIN output_files |->
        [fname |-> output_files[i].fname, content |-> Join(output_files[i].data)]]

\* lines 345-346: signature_list, the documents of the keys sorted by order
MultigetSorted(store, keys) == SortedByOrder([i \in DOMAIN keys |-> store[keys[i]]])

\* lines 341-357: the bundle built from the corpus; `keys` is the search
\* result in the order the search lists it
BuildBundle(store, keys) == InMemoryZip(OutputFiles(MultigetSorted(store, keys), <<>>))

\* A caller's result
NoResult == [kind |-> "none", body |-> <<>>, computed |-> FALSE]

\* make_file_response(bundle, ...): the bytes returned, and whether this
\* request built them
FileResponse(bundle, computed) == [kind |-> "file", body |-> bundle, computed |-> computed]

\* The unhandled exception of a failed request
Failure(why) == [kind |-> why, body |-> <<>>, computed |-> FALSE]

NoReq == [access |-> "", query |-> "", query_hash |-> sha256("", "", 0)]

\* _get_cached_signatures ignoring what the cache holds
CachedSignatures_Blind(signature_cache, query_hash, raises) ==
    [hit |-> FALSE, bundle |-> <<>>]

\* _get_cached_signatures(signature_cache, query_hash): the cached bundle, or
\* None when there is none or when the read raises (lines 297-300)
CachedSignatures(signature_cache, query_hash, raises) ==
    IF raises \/ query_hash \notin DOMAIN signature_cache
    THEN [hit |-> FALSE, bundle |-> <<>>]
    ELSE [hit |-> TRUE, bundle |-> signature_cache[query_hash]]

\* What a step of a download leaves alone
DlFrame == UNCHANGED <<signature, srcVars, call, response, arVars>>

\* lines 323-329: the caller reads its arguments and the corpus stamp
Start(c) ==
    /\ pc[c] = "idle"
    /\ \E query \in Queries, access \in AccessScopes :
         req' = [req EXCEPT ![c] =
                   [access |-> access, query |-> query,
                    query_hash |-> sha256(query, access,
                                          get_signature_last_modified(signature))]]
    /\ pc' = [pc EXCEPT ![c] = "started"]
    /\ UNCHANGED <<cache, lock, rule_file_bin, result, computations, cache_failed, expired>>
    /\ DlFrame

\* lines 332-334: the read of the cache before the lock
FirstCheck(c) ==
    /\ pc[c] = "started"
    /\ \E raises \in BOOLEAN :
         LET r == CachedSignatures(cache, req[c].query_hash, raises)
         IN  /\ cache_failed' = (cache_failed \/ raises)
             /\ IF r.hit
                THEN /\ result' = [result EXCEPT ![c] = FileResponse(r.bundle, FALSE)]
                     /\ pc' = [pc EXCEPT ![c] = "done"]
                ELSE /\ pc' = [pc EXCEPT ![c] = "waiting"]
                     /\ UNCHANGED result
    /\ UNCHANGED <<cache, lock, req, rule_file_bin, computations, expired>>
    /\ DlFrame

\* line 336: Lock(name, 30).__enter__ when the lock is free
Acquire(c) ==
    /\ pc[c] = "waiting"
    /\ lock[LockName(req[c].query_hash)] = 0
    /\ lock' = [lock EXCEPT ![LockName(req[c].query_hash)] = c]
    /\ pc' = [pc EXCEPT ![c] = "locked"]
    /\ UNCHANGED <<cache, req, rule_file_bin, result, computations, cache_failed, expired>>
    /\ DlFrame

\* line 336: the lock stays held for the whole timeout; the caller fails
LockTimeout(c) ==
    /\ pc[c] = "waiting"
    /\ lock[LockName(req[c].query_hash)] \notin {0, c}
    /\ pc' = [pc EXCEPT ![c] = "done"]
    /\ result' = [result EXCEPT ![c] = Failure("LockTimeout")]
    /\ UNCHANGED <<cache, lock, req, rule_file_bin, computations, cache_failed, expired>>
    /\ DlFrame

\* Lock.__exit__: the end of the with block of line 336
Released(l, c) == [n \in DOMAIN l |-> IF l[n] = c THEN 0 ELSE l[n]]

\* A block that leaves its lock held
WithExit_Leaks(l, c) == l

\* `with Lock(...)` (line 336): the block is left, by a return or by an
\* exception, through the lock's __exit__
WithExit(l, c) == Released(l, c)

\* The holder of the lock computes without a look at the cache
Recheck_Skipped(signature_cache, query_hash, raises) ==
    [hit |-> FALSE, bundle |-> <<>>]

\* line 337: the read of the cache made again once the lock is held
Recheck(signature_cache, query_hash, raises) ==
    CachedSignatures(signature_cache, query_hash, raises)

\* lines 337-339: the read of the cache under the lock
SecondCheck(c) ==
    /\ pc[c] = "locked"
    /\ \E raises \in BOOLEAN :
         LET r == Recheck(cache, req[c].query_hash, raises)
         IN  /\ cache_failed' = (cache_failed \/ raises)
             /\ IF r.hit
                THEN /\ result' = [result EXCEPT ![c] = FileResponse(r.bundle, FALSE)]
                     /\ pc' = [pc EXCEPT ![c] = "done"]
                     /\ lock' = WithExit(lock, c)
                ELSE /\ pc' = [pc EXCEPT ![c] = "computing"]
                     /\ UNCHANGED <<result, lock>>
    /\ UNCHANGED <<cache, req, rule_file_bin, computations, expired>>
    /\ DlFrame

\* lines 341-357: the search, the multiget and the archive
Compute(c) ==
    /\ pc[c] = "computing"
    /\ \E keys \in Orderings(stream_search(signature, req[c].query, req[c].access)) :
         \E signature_list \in {MultigetSorted(signature, keys)} :
           rule_file_bin' = [rule_file_bin EXCEPT ![c] =
                               InMemoryZip(OutputFiles(signature_list, <<>>))]
    /\ computations' = [computations EXCEPT ![req[c].query_hash] =
                          IF @ < MaxCounted THEN @ + 1 ELSE @]
    /\ pc' = [pc EXCEPT ![c] = "built"]
    /\ UNCHANGED <<cache, lock, req, result, cache_failed, expired>>
    /\ DlFrame

\* lines 343-346: the search or the multiget raises; the exception leaves
\* the with block and the request ends as an internal error
SearchFails(c) ==
    /\ pc[c] = "computing"
    /\ result' = [result EXCEPT ![c] = Failure("UpstreamError")]
    /\ lock' = WithExit(lock, c)
    /\ pc' = [pc EXCEPT ![c] = "done"]
    /\ UNCHANGED <<cache, req, rule_file_bin, computations, cache_failed, expired>>
    /\ DlFrame

\* signature_cache.save(query_hash, rule_file_bin, ttl=DEFAULT_CACHE_TTL):
\* the entry is stored, or the save answers that it is not
CacheSave(signature_cache, query_hash, bundle, ok) ==
    IF ok
    THEN [h \in DOMAIN signature_cache \cup {query_hash} |->
            IF h = query_hash THEN bundle ELSE signature_cache[h]]
    ELSE signature_cache

\* lines 359-364: the bundle is cached, whatever the save answers it is
\* returned, and the lock is released
SaveAndReturn(c) ==
    /\ pc[c] = "built"
    /\ \E ok \in BOOLEAN :
         /\ cache' = CacheSave(cache, req[c].query_hash, rule_file_bin[c], ok)
         /\ cache_failed' = (cache_failed \/ ~ok)
    /\ result' = [result EXCEPT ![c] = FileResponse(rule_file_bin[c], TRUE)]
    /\ lock' = WithExit(lock, c)
    /\ pc' = [pc EXCEPT ![c] = "done"]
    /\ UNCHANGED <<req, rule_file_bin, computations, expired>>
    /\ DlFrame

\* ttl=DEFAULT_CACHE_TTL (line 359): the window of an entry ends, the entry
\* is gone and a new window may open
Expire ==
    /\ \E h \in DOMAIN cache :
        /\ cache' = [k \in DOMAIN cache \ {h} |-> cache[k]]
        /\ computations' = [computations EXCEPT ![h] = 0]
    /\ expired' = TRUE
    /\ UNCHANGED <<lock, pc, req, rule_file_bin, result, cache_failed>>
    /\ DlFrame

\* An importer rewrites a signature of the corpus (update_signature, lines
\* 468-472): new rule text and a later last_modified
ImporterUpdate ==
    /\ signature[Rewritten].last_modified < MaxModified
    /\ signature' = [signature EXCEPT ![Rewritten].data = "d3b",
                                      ![Rewritten].last_modified = @ + 1]
    /\ UNCHANGED <<srcVars, call, response, dlVars, arVars>>

(***************************************************************************)
(* get_additional_details (archive.py lines 63-171): four related-file     *)
(* searches, each in a try block that writes a result slot of the output.  *)
(***************************************************************************)
\* The keys of `output` (line 130)
Slots == {"tlsh", "ssdeep1", "ssdeep2", "vector"}

\* file_obj.get('ssdeep', '').split(':') of a file with an ssdeep, and of one with none
SsdeepParts == {<<"3", "abc", "def">>, <<"">>}

\* STORAGE.file.get(sha256): no file, or a file with its classification, its
\* tlsh (None when it has none) and the parts of its ssdeep
NoFile == [exists |-> FALSE, classification |-> "U", tlsh |-> None, ssdeep |-> <<"">>]

Files ==
    {NoFile} \cup
    [exists : {TRUE}, classification : {"U", "R"}, tlsh : {"T1", None}, ssdeep : SsdeepParts]

\* {} : the slot as line 130 sets it
EmptySlot == [kind |-> "empty", of |-> <<>>]

\* What STORAGE.file.search(query=...) returns
SearchResult(query) == [kind |-> "result", of |-> query]

\* f"SearchException: {e}", e the exception of the step of that name
SearchException(e) == [kind |-> "error", of |-> <<e>>]

\* lines 133-137: the tlsh of the file is read and searched in one try block
ProcessTlsh(file_obj, fails) ==
    IF file_obj.tlsh = None THEN SearchException("tlsh_missing")
    ELSE IF "tlsh" \in fails THEN SearchException("tlsh")
    ELSE SearchResult(<<"tlsh:", file_obj.tlsh>>)

\* The exception that ends the try block of lines 140-146, "" when none does:
\* ssdeep[1], the first search, ssdeep[2] and the second search come in turn
SsdeepException(ssdeep, fails) ==
    IF Len(ssdeep) < 2 THEN "IndexError"
    ELSE IF "ssdeep1" \in fails THEN "ssdeep1"
    ELSE IF Len(ssdeep) < 3 THEN "IndexError"
    ELSE IF "ssdeep2" \in fails THEN "ssdeep2"
    ELSE ""

\* lines 140-146: both searches in one try block, whose handler writes both
\* slots (Python's ssdeep[1] and ssdeep[2] are the second and third parts)
ProcessSsdeep(file_obj, fails) ==
    LET e == SsdeepException(file_obj.ssdeep, fails)
    IN  IF e # ""
        THEN [ssdeep1 |-> SearchException(e), ssdeep2 |-> SearchException(e)]
        ELSE [ssdeep1 |-> SearchResult(<<"ssdeep:", file_obj.ssdeep[2], "~">>),
              ssdeep2 |-> SearchResult(<<"ssdeep:", file_obj.ssdeep[3], "~">>)]

\* lines 151-169: the searches of the vector in one try block
ProcessVector(file_obj, fails) ==
    IF "vector" \in fails THEN SearchException("vector")
    ELSE SearchResult(<<"vector">>)

NoOutput == [q \in Slots |-> EmptySlot]

\* The whole handler; `fails` names the searches that raise
get_additional_details(file_obj, user, fails) ==
    IF ~file_obj.exists
    THEN [output |-> NoOutput, response |-> Response(404, "absent", "file_not_found")]
    ELSE IF ~is_accessible(user.classification, file_obj.classification)
    THEN [output |-> NoOutput, response |-> Response(403, "absent", "not_allowed")]
    ELSE LET ssdeep == ProcessSsdeep(file_obj, fails)
         IN  [output |-> [q \in Slots |->
                            CASE q = "tlsh" -> ProcessTlsh(file_obj, fails)
                              [] q = "ssdeep1" -> ssdeep.ssdeep1
                              [] q = "ssdeep2" -> ssdeep.ssdeep2
                              [] q = "vector" -> ProcessVector(file_obj, fails)],
              response |-> Response(200, "absent", "")]

GetAdditionalDetails ==
    \E file_obj \in Files, user \in Users, fails \in SUBSET Slots :
        LET r == get_additional_details(file_obj, user, fails)
        IN  /\ details_req' = [file_obj |-> file_obj, user |-> user, fails |-> fails]
            /\ output' = r.output
            /\ response' = r.response
            /\ call' = "get_additional_details"
            /\ UNCHANGED <<sigVars, srcVars, dlVars>>

\* No details asked yet
NoDetails ==
    /\ details_req = [file_obj |-> NoFile, user |-> CHOOSE u \in Users : TRUE, fails |-> {}]
    /\ output = NoOutput

(***************************************************************************)
(* Specifications                                                          *)
(***************************************************************************)
\* No download under way
NoDownload ==
    /\ cache = <<>>
    /\ lock = [n \in LockNames |-> 0]
    /\ pc = [c \in Callers |-> "idle"]
    /\ req = [c \in Callers |-> NoReq]
    /\ rule_file_bin = [c \in Callers |-> <<>>]
    /\ result = [c \in Callers |-> NoResult]
    /\ computations = [h \in QueryHashes |-> 0]
    /\ cache_failed = FALSE
    /\ expired = FALSE

\* No request served yet
Idle ==
    /\ call = ""
    /\ response = Response(0, "absent", "")

\* A service that generates no signatures and has no sources
NoService == [generates_signatures |-> FALSE, sources |-> <<>>]

NoDelta == [has_update_config |-> FALSE, sources |-> <<>>]

Init ==
    /\ signature = <<>>
    /\ service = NoService
    /\ service_delta = NoDelta
    /\ Idle
    /\ NoDownload
    /\ NoDetails

Next ==
    \/ AddSignature
    \/ AddUpdateSignature
    \/ UpdateSignature
    \/ ChangeStatus
    \/ DeleteSignature

Spec == Init /\ [][Next]_vars

\* The services the editor may meet: flagged or not as generating
\* signatures, with none, one or two sources of their own
Services ==
    { [generates_signatures |-> g, sources |-> l] :
        g \in BOOLEAN,
        l \in { <<>>, <<Source("a", "u1")>>, <<Source("a", "u1"), Source("b", "u2")>> } }

InitSources ==
    /\ signature = <<>>
    /\ service \in Services
    /\ service_delta = NoDelta
    /\ Idle
    /\ NoDownload
    /\ NoDetails

NextSources ==
    \/ AddSignatureSource
    \/ UpdateSignatureSource
    \/ DeleteSignatureSource

SpecSources == InitSources /\ [][NextSources]_vars

\* Downloads on a cold cache, while the cache expires and an importer writes
InitDownload ==
    /\ signature = Corpus
    /\ service = NoService
    /\ service_delta = NoDelta
    /\ Idle
    /\ NoDownload
    /\ NoDetails

NextDownload ==
    \/ \E c \in Callers : Start(c)
    \/ \E c \in Callers : FirstCheck(c)
    \/ \E c \in Callers : Acquire(c)
    \/ \E c \in Callers : LockTimeout(c)
    \/ \E c \in Callers : SecondCheck(c)
    \/ \E c \in Callers : Compute(c)
    \/ \E c \in Callers : SearchFails(c)
    \/ \E c \in Callers : SaveAndReturn(c)
    \/ Expire
    \/ ImporterUpdate

SpecDownload == InitDownload /\ [][NextDownload]_vars

\* A step of the request of caller c
Request(c) ==
    \/ Start(c)
    \/ FirstCheck(c)
    \/ Acquire(c)
    \/ LockTimeout(c)
    \/ SecondCheck(c)
    \/ Compute(c)
    \/ SearchFails(c)
    \/ SaveAndReturn(c)

\* A request that has been received runs on: the server leaves no request
\* that can take a step waiting forever
RequestsRunOn ==
    \A c \in Callers : WF_vars(pc[c] # "idle" /\ Request(c))

\* The requests alone, on a corpus at rest: neither what the cache forgets
\* nor what an importer writes moves a lock or a request
NextGuard == \E c \in Callers : Request(c)

SpecGuard == InitDownload /\ [][NextGuard]_vars /\ RequestsRunOn

\* The values of a signature's `order`
MaxOrder == 2

\* The corpora a bundle is built from: up to three signatures, each of either
\* type, from either source, of any order, deployed or not
CorpusKeys ==
    { <<"sig", "_", "A", "_", "1">>, <<"sig", "_", "B", "_", "1">>, <<"sig", "_", "C", "_", "1">> }

CorpusData(k) == <<"data", k[3]>>

CorpusClassification(k) == IF k[3] = "B" THEN "R" ELSE "U"

Corpora ==
    UNION { [ keys ->
                { [CorpusDoc(type, source, "", order, "U", 0) EXCEPT !.status = status] :
                    type \in {"yara", "suricata"}, source \in {"source1", "source2"},
                    order \in 1..MaxOrder, status \in {"DEPLOYED", "DISABLED"} } ]
            : keys \in SUBSET CorpusKeys }

\* Each document with the rule text and the classification of its key
Filled(store) ==
    [k \in DOMAIN store |->
        [store[k] EXCEPT !.data = CorpusData(k), !.classification = CorpusClassification(k)]]

\* One download, on any corpus, with the cache and the lock to itself
InitBundle ==
    /\ signature \in { Filled(store) : store \in Corpora }
    /\ service = NoService
    /\ service_delta = NoDelta
    /\ Idle
    /\ NoDownload
    /\ NoDetails

Alone == 1

NextBundle ==
    \/ Start(Alone)
    \/ FirstCheck(Alone)
    \/ Acquire(Alone)
    \/ SecondCheck(Alone)
    \/ Compute(Alone)
    \/ SearchFails(Alone)
    \/ SaveAndReturn(Alone)

SpecBundle == InitBundle /\ [][NextBundle]_vars

InitDetails ==
    /\ signature = <<>>
    /\ service = NoService
    /\ service_delta = NoDelta
    /\ Idle
    /\ NoDownload
    /\ NoDetails

NextDetails == GetAdditionalDetails

SpecDetails == InitDetails /\ [][NextDetails]_vars

(***************************************************************************)
(* Properties of the signature lifecycle                                   *)
(***************************************************************************)
\* The signatures of the family of `sid` other than `sid` itself
Siblings(store, sid) ==
    { k \in DOMAIN store \ {sid} : store[k].signature_id = store[sid].signature_id }

\* The step is change_status(sid, status) by `user`, answered as `r` says
IsChangeStatus(r) ==
    call' = "change_status" /\ response' = r.response /\ signature' = r.store

\* C1: after change_status(sid, "DEPLOYED") by a caller succeeds, the target is
\* stored with status DEPLOYED and every other signature of its family that was
\* DEPLOYED before the call is stored DISABLED, with state_change_user the caller.
C1_DeployDisablesDeployedSiblings ==
    [][\A sid \in DOMAIN signature, user \in Users, today \in Times :
         \A order \in SearchOrders(signature, sid, "DEPLOYED") :
           LET r == change_status(signature, sid, "DEPLOYED", user, order, today, TRUE)
           IN  (IsChangeStatus(r) /\ response'.success = "true") =>
                 /\ signature'[sid].status = "DEPLOYED"
                 /\ \A k \in Siblings(signature, sid) :
                       signature[k].status = "DEPLOYED" =>
                         /\ k \in DOMAIN signature'
                         /\ signature'[k].status = "DISABLED"
                         /\ signature'[k].state_change_user = user.uname]_vars

\* C2: for every signature whose status is stale and every requested status
\* that is not a draft status, change_status answers 403 and leaves the store,
\* the target and its siblings included, as it was.
C2_StaleOnlyToDraft ==
    \A sid \in DOMAIN signature, status \in RequestStatuses \ DRAFT_STATUSES,
       user \in Users, today \in Times, ok \in BOOLEAN :
      \A order \in SearchOrders(signature, sid, status) :
        signature[sid].status \in STALE_STATUSES =>
          LET r == change_status(signature, sid, status, user, order, today, ok)
          IN  r.response.code = 403 /\ r.store = signature

\* A change_status call has refused to move a stale signature to a status that is no draft
C2_Witness ==
    /\ call = "change_status"
    /\ response = Response(403, "absent", "stale_only_to_draft")
    /\ \E k \in DOMAIN signature : signature[k].status \in STALE_STATUSES

\* C3 (as amended): for every signature whose status is a deployed status and
\* every requested draft status, change_status answers 403 and leaves the
\* store, the target and its siblings included, as it was.
C3_DeployedNotToDraft ==
    \A sid \in DOMAIN signature, status \in DRAFT_STATUSES,
       user \in Users, today \in Times, ok \in BOOLEAN :
      \A order \in SearchOrders(signature, sid, status) :
        signature[sid].status \in DEPLOYED_STATUSES =>
          LET r == change_status(signature, sid, status, user, order, today, ok)
          IN  r.response.code = 403 /\ r.store = signature

\* A change_status call has refused to move a deployed signature to a draft status
C3_Witness ==
    /\ call = "change_status"
    /\ response = Response(403, "absent", "deployed_to_draft")
    /\ \E k \in DOMAIN signature : signature[k].status \in DEPLOYED_STATUSES

\* A change_status step leaves no signature that was in the deployed group at a draft status
NoDeployedToDraftStep ==
    call' = "change_status" =>
      \A k \in DOMAIN signature \cap DOMAIN signature' :
        (/\ signature[k].signature_id = signature'[k].signature_id
         /\ signature[k].status \in DEPLOYED_STATUSES)
          => signature'[k].status \notin DRAFT_STATUSES

\* C3 (as stated): the refusal of C3_DeployedNotToDraft and, hence, under any
\* sequence of change_status calls no signature of the deployed group ever
\* reaches a draft status.
C3_DeployedNeverReachesDraft ==
    []C3_DeployedNotToDraft /\ [][NoDeployedToDraftStep]_vars

\* The transitions the status state machine allows
AllowedTransition(old, new) ==
    \/ old = new
    \/ /\ ~(old \in DEPLOYED_STATUSES /\ new \in DRAFT_STATUSES)
       /\ ~(old \in STALE_STATUSES /\ new \notin DRAFT_STATUSES)

\* C6: under any sequence of the signature operations, the stored status of an
\* existing signature changes only along a transition the state machine allows.
C6_StatusFollowsStateMachine ==
    [][\A k \in DOMAIN signature \cap DOMAIN signature' :
          AllowedTransition(signature[k].status, signature'[k].status)]_vars

\* C7: no two stored signatures with different signature_id share a
\* (name, type, source) combination.
C7_NameTypeSourceUnique ==
    \A k1, k2 \in DOMAIN signature :
        (/\ signature[k1].name = signature[k2].name
         /\ signature[k1].type = signature[k2].type
         /\ signature[k1].source = signature[k2].source)
          => signature[k1].signature_id = signature[k2].signature_id

\* At most one signature of each family holds each status that starts the cascade
OnePerFamilyAndStatus(store) ==
    \A k1, k2 \in DOMAIN store :
        (/\ k1 # k2
         /\ store[k1].signature_id = store[k2].signature_id
         /\ store[k1].status = store[k2].status)
            => CascadeExempt(store[k1].status)

\* C14: change_status keeps the family rule: from a store where no two
\* signatures of one signature_id share a status outside DISABLED, INVALID and
\* TESTING, every completed change_status call leaves a store where none do.
C14_OnePerFamilyAfterChangeStatus ==
    [][(OnePerFamilyAndStatus(signature) /\ call' = "change_status")
          => OnePerFamilyAndStatus(signature')]_vars

\* C15: for every signature whose classification the caller's classification
\* cannot access and every requested status, change_status answers 403 and
\* leaves every signature document, the target and its siblings included, as
\* it was.
C15_NoAccessNoChange ==
    \A sid \in DOMAIN signature, status \in RequestStatuses,
       user \in Users, today \in Times, ok \in BOOLEAN :
      \A order \in SearchOrders(signature, sid, status) :
        ~is_accessible(user.classification, signature[sid].classification) =>
          LET r == change_status(signature, sid, status, user, order, today, ok)
          IN  r.response.code = 403 /\ r.store = signature

\* A change_status call on a signature the caller cannot access has been refused
C15_Witness ==
    /\ call = "change_status"
    /\ response = Response(403, "absent", "not_allowed")
    /\ \E k \in DOMAIN signature, user \in Users :
          ~is_accessible(user.classification, signature[k].classification)

\* C18: when change_status has passed its checks, has disabled the siblings
\* its search found and the save of the target then fails, the answer is
\* success false, every one of those siblings is stored DISABLED (nothing is
\* rolled back) and the target is stored with the status it had.
C18_FailedSaveKeepsCascade ==
    [][\A sid \in DOMAIN signature, status \in RequestStatuses,
          user \in Users, today \in Times :
         \A order \in SearchOrders(signature, sid, status) :
           LET r == change_status(signature, sid, status, user, order, today, FALSE)
           IN  (/\ IsChangeStatus(r)
                /\ r.response.code = 200
                /\ ~CascadeExempt(status)
                /\ order # <<>>) =>
                 /\ response'.success = "false"
                 /\ \A i \in DOMAIN order :
                       /\ order[i] \in DOMAIN signature'
                       /\ signature'[order[i]].status = "DISABLED"
                 /\ sid \in DOMAIN signature'
                 /\ signature'[sid].status = signature[sid].status]_vars

\* C19: a change_status call that asks for DISABLED, INVALID or TESTING and is
\* answered 200 leaves every document but the target's as it was and changes
\* of the target's nothing but status, state_change_date and
\* state_change_user; and no change_status call, whatever status it asks for,
\* leaves its target disabled by its own cascade: the target's document is
\* after the call the one it was or that one with the requested status and
\* the stamps of the call.
C19_ExemptStatusTouchesTargetOnly ==
    [][\A sid \in DOMAIN signature, status \in RequestStatuses,
          user \in Users, today \in Times, ok \in BOOLEAN :
         \A order \in SearchOrders(signature, sid, status) :
           LET r == change_status(signature, sid, status, user, order, today, ok)
               restamped == [signature[sid] EXCEPT !.status = status,
                                                   !.state_change_date = today,
                                                   !.state_change_user = user.uname]
           IN  IsChangeStatus(r) =>
                 /\ sid \in DOMAIN signature'
                 /\ signature'[sid] \in {signature[sid], restamped}
                 /\ (CascadeExempt(status) /\ r.response.code = 200) =>
                       /\ DOMAIN signature' = DOMAIN signature
                       /\ \A k \in DOMAIN signature \ {sid} : signature'[k] = signature[k]
                       /\ ok => signature'[sid] = restamped]_vars

(***************************************************************************)
(* Properties of the source list editor                                    *)
(***************************************************************************)
\* The source list the handlers read
CurrentSources == get_service_with_delta(service, service_delta).sources

NameOrUriTaken(sources, data) ==
    \E i \in DOMAIN sources : sources[i].name = data.name \/ sources[i].uri = data.uri

ConflictErrors == {"source_name_exists", "source_uri_exists"}

\* C8 (as stated): add_signature_source with the name or the uri of a source
\* of the list answers a conflict error, success false, and leaves the
\* persisted list as it was, whatever the service.
C8_AddSourceConflict ==
    [][\A data \in SourceBodies, ok \in BOOLEAN :
         LET r == add_signature_source(service, service_delta, data, ok)
         IN  (/\ call' = "add_signature_source"
              /\ response' = r.response
              /\ service_delta' = r.delta
              /\ NameOrUriTaken(CurrentSources, data))
               => /\ response'.success = "false"
                  /\ response'.err \in ConflictErrors
                  /\ service_delta' = service_delta]_vars

\* C8 (as amended): on a service flagged as generating signatures,
\* add_signature_source with the name or the uri of a source of the list
\* answers a conflict error, success false, and leaves the persisted list as
\* it was.
C8_AddSourceConflictWhenGenerating ==
    \A data \in SourceBodies, ok \in BOOLEAN :
      (service.generates_signatures /\ NameOrUriTaken(CurrentSources, data)) =>
        LET r == add_signature_source(service, service_delta, data, ok)
        IN  /\ r.response.success = "false"
            /\ r.response.err \in ConflictErrors
            /\ r.delta = service_delta

\* add_signature_source has refused a source for its uri, the list holding sources
C8_Witness ==
    /\ call = "add_signature_source"
    /\ response = Response(400, "false", "source_uri_exists")
    /\ service.generates_signatures
    /\ Len(CurrentSources) > 0

\* C9: update_signature_source(service, name, data) with data.name # name
\* answers the error that forbids the rename, success false, and leaves the
\* persisted list as it was, whatever the service.
C9_RenameForbidden ==
    \A name \in SourceNames, data \in SourceBodies, ok \in BOOLEAN :
      data.name # name =>
        LET r == update_signature_source(service, service_delta, name, data, ok)
        IN  /\ r.response.success = "false"
            /\ r.response.err = "rename_not_allowed"
            /\ r.delta = service_delta

\* update_signature_source has refused a rename on a service with sources
C9_Witness ==
    /\ call = "update_signature_source"
    /\ response = Response(400, "false", "rename_not_allowed")
    /\ Len(CurrentSources) > 0

\* C10: update_signature_source(service, name, data) with data.name = name on a
\* service that generates signatures: with no source named `name` in the list,
\* the empty list included, it answers 404 and leaves the list as it was; with
\* one, it replaces it in place: the list keeps its length and every other
\* entry its position.
C10_UpdateSourceNotFoundOrInPlace ==
    [][\A data \in SourceBodies, ok \in BOOLEAN :
         LET r == update_signature_source(service, service_delta, data.name, data, ok)
             before == CurrentSources
             after == get_service_with_delta(service', service_delta').sources
         IN  (/\ call' = "update_signature_source"
              /\ response' = r.response
              /\ service_delta' = r.delta
              /\ service.generates_signatures)
               => IF ~Found(before, data.name)
                  THEN response'.code = 404 /\ service_delta' = service_delta
                  ELSE response'.success = "true" =>
                         /\ Len(after) = Len(before)
                         /\ \A i \in DOMAIN before :
                               after[i] = IF before[i].name = data.name
                                          THEN data ELSE before[i]]_vars

\* C11: after any sequence of add_signature_source, update_signature_source
\* and delete_signature_source on one service whose list began with names and
\* uris pairwise distinct, the names of the list are pairwise distinct and so
\* are its uris.
C11_SourceNamesAndUrisDistinct ==
    \A i, j \in DOMAIN CurrentSources :
        i # j => /\ CurrentSources[i].name # CurrentSources[j].name
                 /\ CurrentSources[i].uri # CurrentSources[j].uri

(***************************************************************************)
(* Properties of the downloader                                            *)
(***************************************************************************)
\* The callers whose request bears the fingerprint h
CallersOf(h) == { c \in Callers : pc[c] # "idle" /\ req[c].query_hash = h }

\* The caller has built a bundle
Computed(c) == pc[c] = "built" \/ (pc[c] = "done" /\ result[c].computed)

\* The step is a read of a cache that holds the caller's fingerprint
ReadsCachedEntry(c) ==
    /\ pc[c] \in {"started", "locked"}
    /\ pc'[c] # pc[c]
    /\ req[c].query_hash \in DOMAIN cache

AllDoneWithOneFingerprint ==
    /\ \A c \in Callers : pc[c] = "done"
    /\ \A c, d \in Callers : req[c].query_hash = req[d].query_hash

LockHeldInsideWithBlock ==
    \A n \in LockNames :
        lock[n] # 0 => /\ pc[lock[n]] \in {"locked", "computing", "built"}
                       /\ LockName(req[lock[n]].query_hash) = n

\* C12: a caller that has missed the cache and waits for the lock of its
\* fingerprint stops waiting: it gets the lock, or it fails with LockTimeout
\* while another caller holds it; every request that was started ends; and a
\* lock is held only by a caller inside its with block, so it is released on
\* every way out of the block.
C12_GuardNeverBlocksForever ==
    /\ []LockHeldInsideWithBlock
    /\ \A c \in Callers : (pc[c] # "idle") ~> (pc[c] = "done")
    /\ [][\A c \in Callers :
            (pc[c] = "waiting" /\ pc'[c] = "done")
                => /\ lock[LockName(req[c].query_hash)] \notin {0, c}
                   /\ result'[c] = Failure("LockTimeout")]_vars

\* A caller has failed on the lock's timeout, the holder has left its block
\* on an exception, and no lock is held any more
C12_Witness ==
    /\ \E c, d \in Callers :
        /\ pc[c] = "done" /\ result[c].kind = "LockTimeout"
        /\ pc[d] = "done" /\ result[d].kind = "UpstreamError"
        /\ req[c].query_hash = req[d].query_hash
    /\ \A n \in LockNames : lock[n] = 0

\* The step is caller c reaching line 359 with fingerprint h and the cache
\* taking the bundle it built
WritesUnder(c, h) ==
    /\ pc[c] = "built" /\ pc'[c] = "done"
    /\ req[c].query_hash = h
    /\ cache' = CacheSave(cache, h, rule_file_bin[c], TRUE)

\* No step changes or writes again an entry that stays in the cache
EntriesKept ==
    \A h \in DOMAIN cache :
        h \in DOMAIN cache' =>
            /\ cache'[h] = cache[h]
            /\ \A c \in Callers : ~WritesUnder(c, h)

Matching(c) == stream_search(signature, req[c].query, req[c].access)

\* The (type, source) pairs of a set of signatures
Pairs(keys) == { <<signature[k].type, signature[k].source>> : k \in keys }

\* The signatures of one pair among a set of signatures
OfPair(keys, p) == { k \in keys : <<signature[k].type, signature[k].source>> = p }

\* content is the rule texts of the keys, listed as o lists them, with a
\* double newline between two of them and none elsewhere
JoinedInOrder(content, o) ==
    /\ Len(content) = 2 * Len(o) - 1
    /\ \A j \in DOMAIN o : content[2 * j - 1] = signature[o[j]].data
    /\ \A j \in 1..(Len(o) - 1) : content[2 * j] = "\n\n"

Ascending(o) == \A i, j \in DOMAIN o : i < j => signature[o[i]].order <= signature[o[j]].order

\* C17: the bundle a call builds has exactly one entry for each (type, source)
\* pair of the signatures its query matches, named "type/source", whose
\* content is the rule texts of the pair's signatures in ascending order
\* joined by a double newline; when nothing matches, the bundle has no entry
\* and the call returns it as a file, not as an error.
C17_OneEntryPerTypeAndSource ==
    \A c \in Callers :
        Computed(c) =>
            LET zip == rule_file_bin[c]
                pairs == Pairs(Matching(c))
            IN  /\ Len(zip) = Cardinality(pairs)
                /\ \A p \in pairs :
                     \E i \in DOMAIN zip :
                        /\ zip[i].fname = <<p[1], "/", p[2]>>
                        /\ \E o \in Orderings(OfPair(Matching(c), p)) :
                              Ascending(o) /\ JoinedInOrder(zip[i].content, o)
                /\ (Matching(c) = {} => zip = <<>>)
                /\ (pc[c] = "done" => result[c] = FileResponse(zip, TRUE))

\* A call has returned a bundle of two entries built from three matching
\* signatures, two yara and one suricata, of two sources in all, the two of one
\* entry being listed by the corpus in descending order
C17_Witness ==
    \E c \in Callers :
        /\ pc[c] = "done" /\ result[c].computed
        /\ Cardinality(Matching(c)) = 3
        /\ { signature[k].type : k \in Matching(c) } = {"yara", "suricata"}
        /\ Cardinality({ signature[k].source : k \in Matching(c) }) = 2
        /\ Len(result[c].body) = 2
        /\ \E i \in DOMAIN result[c].body :
              result[c].body[i].content = <<<<"data", "B">>, "\n\n", <<"data", "A">>>>

\* The rule texts a bundle holds
TextsOf(bundle) ==
    UNION { { bundle[i].content[j] : j \in DOMAIN bundle[i].content } : i \in DOMAIN bundle }

\* The rule texts of the signatures an access scope may not read
Hidden(access) ==
    { signature[k].data : k \in { x \in DOMAIN signature :
                                    ~is_accessible(access, signature[x].classification) } }

\* The access scope a fingerprint was computed from
ScopeOf(query_hash) == query_hash.rest[3]

\* C20: a bundle returned to a caller, built by its call or read from the
\* cache, holds no signature outside that caller's access scope; every entry
\* of the cache holds only what the scope of its fingerprint may read; and
\* two callers of different access scopes have different fingerprints, hence
\* different cache entries, also when the fingerprints share the lock prefix.
C20_BundlesStayWithinScope ==
    /\ \A c \in Callers :
          (pc[c] = "done" /\ result[c].kind = "file")
              => TextsOf(result[c].body) \cap Hidden(req[c].access) = {}
    /\ \A h \in DOMAIN cache : TextsOf(cache[h]) \cap Hidden(ScopeOf(h)) = {}
    /\ \A c, d \in Callers :
          (pc[c] # "idle" /\ pc[d] # "idle" /\ req[c].access # req[d].access)
              => req[c].query_hash # req[d].query_hash

\* Two callers of one query and different scopes, whose fingerprints share the
\* lock, have each built their bundle, only the wider scope's holding the
\* restricted signature, and a third caller has been served the narrower
\* scope's bundle from the cache
C20_Witness ==
    \E c, d, e \in Callers :
        /\ pc[c] = "done" /\ pc[d] = "done" /\ pc[e] = "done"
        /\ req[c].query = req[d].query
        /\ req[c].access = "U" /\ req[d].access = "R"
        /\ LockName(req[c].query_hash) = LockName(req[d].query_hash)
        /\ result[c].kind = "file" /\ result[c].computed
        /\ result[d].kind = "file" /\ result[d].computed
        /\ Hidden("U") # {}
        /\ Hidden("U") \subseteq TextsOf(result[d].body)
        /\ e # c /\ req[e].query_hash = req[c].query_hash
        /\ result[e] = FileResponse(result[c].body, FALSE)

(***************************************************************************)
(* Properties of get_additional_details                                    *)
(***************************************************************************)
\* Whether the code can form the query of slot q from the file
QueryFormed(file_obj, q) ==
    CASE q = "tlsh" -> file_obj.tlsh # None
      [] q = "ssdeep1" -> Len(file_obj.ssdeep) >= 2
      [] q = "ssdeep2" -> Len(file_obj.ssdeep) >= 3
      [] q = "vector" -> TRUE

\* C13: when get_additional_details answers 200, a slot holds an error string
\* exactly when its own search raised: the slot of every search that was
\* formed and did not raise holds that search's result, whatever the other
\* three searches did (a failing ssdeep2 leaves the ssdeep1 result in place).
C13_FailureStaysInItsSlot ==
    (call = "get_additional_details" /\ response.code = 200) =>
        \A q \in Slots :
            QueryFormed(details_req.file_obj, q) =>
                IF q \in details_req.fails
                THEN output[q].kind = "error"
                ELSE output[q].kind = "result"

=============================================================================
